---- MODULE Spec2Model ----
(***************************************************************************)
(* Model of the instrumentation hooks of the Noda transaction pipeline:    *)
(* core/state_processor.go (StateProcessor.Process, applyTransaction,      *)
(* ApplyTransaction) and cmd/pluginManage/pluginSetUp.go (SetUpPlugin,     *)
(* RegisterPlugin).  The package-level variables of package dzd (the call  *)
(* context) and of package dan (pending register / unregister requests)    *)
(* are state variables; the state store and the plugin manager are         *)
(* observed through the calls the pipeline makes on them.                  *)
(***************************************************************************)
EXTENDS Integers, Sequences, FiniteSets, TLC

\* ------------------------------------------------------------------ bounds
\* entry-point calls (ApplyTransaction, Process) in one run
MaxOps == 2
\* external calls made inside one message application
MaxCalls == 1
\* transactions in one block handed to Process
MaxBlockTxs == 2

\* ------------------------------------------------------------------ values
\* the nil *common.Address of msg.To() (addresses are positive)
Nil == 0

\* the hook points the pipeline dispatches
BLOCK_INFO == "handle_BLOCK_INFO"
TXSTART == "TXSTART"
EXTERNALINFOSTART == "EXTERNALINFOSTART"
EXTERNALINFOEND == "EXTERNALINFOEND"
TXEND == "TXEND"
HookNames == {BLOCK_INFO, TXSTART, EXTERNALINFOSTART, EXTERNALINFOEND, TXEND}

\* abstract 256-bit hashes and 160-bit addresses, as small numbers
TxHashes == {10, 11}
Addrs == {171}
BlockNumbers == {9, 100}
\* snapshot identifiers an extension may name in a rollback request
SnapshotIds == {1, 2}

\* a transaction: its hash, its direct target (Nil for a contract creation) and
\* whether tx.AsMessage succeeds on it
Txs == [hash : TxHashes, to : Addrs \cup {Nil}, valid : BOOLEAN]


\* ------------------------------------------------------------ conversions
Digits == <<"0", "1", "2", "3", "4", "5", "6", "7", "8", "9", "a", "b", "c", "d", "e", "f">>

\* the digits of n in base b, most significant first
RECURSIVE ToBase(_, _)
ToBase(n, b) ==
    IF n < b THEN <<Digits[n + 1]>>
    ELSE Append(ToBase(n \div b, b), Digits[(n % b) + 1])

\* strconv.Itoa and big.Int.String: decimal
Itoa(n) == ToBase(n, 10)
\* common.Hash.String and common.Address.String: 0x-prefixed hex
HexString(n) == <<"0x">> \o ToBase(n, 16)
\* Go string concatenation
Concat(s, t) == s \o t

\* a call-stack entry: target + "#" + depth
Frame(to, layer) == Concat(Concat(HexString(to), <<"#">>), Itoa(layer))

\* -------------------------------------------------------- plugin artifacts
\* What plugin.Open / Lookup / Register() yield for each path the glob or a
\* pending register request can name.
\*   open    : plugin.Open succeeds
\*   reg     : the Register symbol: "ok", "missing", or "wrongtype"
\*   decodes : json.Unmarshal of Register()'s bytes succeeds
\*   name    : pluginname
\*   option  : event name -> handler symbol name
\*   syms    : handler symbol name -> "ok" | "missing" | "wrongtype"
Artifact(open, reg, decodes, name, option, syms) ==
    [open |-> open, reg |-> reg, decodes |-> decodes, name |-> name,
     option |-> option, syms |-> syms]

\* the files the glob can find, in the (lexical) order it returns them
PathOrder == <<"blk.so", "err.so", "full.so">>
Paths == {PathOrder[i] : i \in DOMAIN PathOrder}

\* the ways the file err.so can be unusable, one for each load-time check
Unusable ==
    LET option == [e \in {TXSTART, TXEND} |-> IF e = TXSTART THEN "On" ELSE "Off"]
        syms(off) == [s \in {"On", "Off"} |-> IF s = "On" THEN "ok" ELSE off]
    IN  {Artifact(FALSE, "ok", TRUE, "err", option, syms("ok")),
         Artifact(TRUE, "missing", TRUE, "err", option, syms("ok")),
         Artifact(TRUE, "wrongtype", TRUE, "err", option, syms("ok")),
         Artifact(TRUE, "ok", FALSE, "err", option, syms("ok")),
         Artifact(TRUE, "ok", TRUE, "err", option, syms("missing")),
         Artifact(TRUE, "ok", TRUE, "err", option, syms("wrongtype"))}

\* what each file can be: full.so binds every hook and declares a handler under
\* the empty event name; blk.so binds two hooks; err.so fails a load-time check
Artifacts ==
    [p \in Paths |->
        CASE p = "full.so" ->
               {Artifact(TRUE, "ok", TRUE, "mon",
                         [e \in HookNames \cup {""} |-> "On"], [s \in {"On"} |-> "ok"])}
          [] p = "blk.so" ->
               {Artifact(TRUE, "ok", TRUE, "blk",
                         [e \in {BLOCK_INFO, EXTERNALINFOEND} |-> "OnBlk"],
                         [s \in {"OnBlk"} |-> "ok"])}
          [] OTHER -> Unusable]

PluginNames == {a.name : a \in UNION {Artifacts[p] : p \in Paths}}

\* the requests the control surface is seen to make: register an artifact that
\* loads or one that does not, unregister the plugin that binds every hook
RequestPaths == {"err.so", "blk.so"}
RequestNames == {"mon"}

\* dan.Clear, the value a drained request argument is set to
Clear == ""

VARIABLES
    pc,                 \* where the pipeline is
    logDir,             \* ./plugin_log exists
    crash,              \* why the process ended ("none" while it runs)
    registry,           \* PluginManages: event name -> binding
    active,             \* PluginManages: between Start() and Stop()
    evmTxStart,         \* the flag set by vmenv.SetTxStart on the current EVM
    CALL_LAYER, CALL_STACK, ALL_STACK, EXTERNAL_FLAG, BLOCKING_FLAG,
    PLUGIN_SNAPSHOT_ID, CALLVALID_MAP, TxHash,     \* package dzd
    IsReg, RegPath, IsUn, UnPlg,                    \* package dan
    via,                \* the entry point running: "none", "ApplyTransaction", "Process"
    block, txIdx,       \* Process: the block and the loop index
    tx,                 \* the transaction being applied
    outcome,            \* what ApplyMessage returned: "none", "ok", "failed", "error"
    nOps,               \* entry-point calls made so far
    evmDepth,           \* external calls open inside the running message application
    evmCalls,           \* external calls started by the running message application
    tcend,              \* the EXTERNALINFOEND collector being filled
    receipt,            \* the receipt applyTransaction is building
    usedGas, receipts,  \* the caller's gas counter, the receipts collected
    ret,                \* what the entry point last returned
    events,             \* SendDataToPlugin calls of the running entry point, in order
    built,              \* payload-builder calls of the running entry point, in order
    stateOps,           \* state-store calls of the running entry point, in order
    freshRequest        \* an extension set the rollback flag and no revert has served it yet

dzdVars == <<CALL_LAYER, CALL_STACK, ALL_STACK, EXTERNAL_FLAG, BLOCKING_FLAG,
             PLUGIN_SNAPSHOT_ID, CALLVALID_MAP, TxHash>>
danVars == <<IsReg, RegPath, IsUn, UnPlg>>
runVars == <<via, block, txIdx, tx, outcome, evmDepth, evmCalls, tcend, receipt, usedGas,
             receipts, ret>>
logVars == <<events, built, stateOps>>
vars == <<pc, nOps, logDir, crash, registry, active, evmTxStart, dzdVars, danVars, runVars, logVars,
          freshRequest>>

NoTx == [hash |-> 0, to |-> Nil, valid |-> FALSE]
NoBlock == [number |-> 0]
\* a collector (collector.AllCollector) with the fields the pipeline fills
NoCollector == [Op |-> <<>>, TxHash |-> <<>>, Number |-> <<>>, CallLayer |-> 0,
                IsSuccess |-> FALSE, CallType |-> <<>>, To |-> <<>>]
NoReceipt == [Status |-> "none", TxHash |-> 0, GasUsed |-> 0, ContractAddress |-> Nil]
EmptyMap == [x \in {} |-> TRUE]

Init ==
    /\ pc = "boot"
    /\ logDir \in BOOLEAN
    /\ crash = "none"
    /\ registry = EmptyMap
    /\ active = FALSE
    /\ evmTxStart = FALSE
    /\ CALL_LAYER = 0
    /\ CALL_STACK = <<>>
    /\ ALL_STACK = <<>>
    /\ EXTERNAL_FLAG = FALSE
    /\ BLOCKING_FLAG = FALSE
    /\ PLUGIN_SNAPSHOT_ID = 0
    /\ CALLVALID_MAP = EmptyMap
    /\ TxHash = <<>>
    /\ IsReg = FALSE
    /\ RegPath = Clear
    /\ IsUn = FALSE
    /\ UnPlg = Clear
    /\ via = "none"
    /\ block = NoBlock
    /\ txIdx = 0
    /\ tx = NoTx
    /\ outcome = "none"
    /\ nOps = 0
    /\ evmDepth = 0
    /\ evmCalls = 0
    /\ tcend = NoCollector
    /\ receipt = NoReceipt
    /\ usedGas = 0
    /\ receipts = <<>>
    /\ ret = "none"
    /\ events = <<>>
    /\ built = <<>>
    /\ stateOps = <<>>
    /\ freshRequest = FALSE

\* ---------------------------------------------------------- plugin manager
\* PluginManages.GetOpcodeRegister: is a handler bound to the event name
GetOpcodeRegister(reg, name) == name \in DOMAIN reg

\* PluginManages.RegisterOpcode: bind, the later registration replacing an earlier one
RegisterOpcode(reg, opcode, monitor) ==
    [e \in DOMAIN reg \cup {opcode} |-> IF e = opcode THEN monitor ELSE reg[e]]

\* PluginManages.UnRegisterPlg: drop every binding owned by the named plugin
UnRegisterPlg(reg, owner) ==
    [e \in {x \in DOMAIN reg : reg[x].PluginName # owner} |-> reg[e]]

\* the MonitorType built by one iteration of RegisterPlugin's loop
\* (SetOpcode left out)
Monitor_NoOpcode(name, opcode, sendfunc) ==
    [PluginName |-> name, Opcode |-> "", SendFunc |-> sendfunc]
Monitor(name, opcode, sendfunc) ==
    [PluginName |-> name, Opcode |-> opcode, SendFunc |-> sendfunc]

\* lines 79-88: plugin.Lookup of the handler symbol declared for an event name
\* and its type assertion: "ok", "missing" or "wrongtype"
\* (the handler taken without either check)
HandlerLookup_Unchecked(a, opcode) == "ok"
HandlerLookup(a, opcode) == a.syms[a.option[opcode]]

\* the loop of RegisterPlugin over the option map, once every symbol resolved:
\* the registry it leaves and the RegisterOpcode calls it made
RECURSIVE RegisterAll(_, _, _)
RegisterAll(acc, a, todo) ==
    IF todo = {} THEN acc
    ELSE LET opcode == CHOOSE e \in todo : TRUE
             monitor == Monitor(a.name, opcode, a.option[opcode])
         IN  RegisterAll([registry |-> RegisterOpcode(acc.registry, opcode, monitor),
                          calls |-> Append(acc.calls, monitor)],
                         a, todo \ {opcode})

\* a way RegisterPlugin ends: status "ok" is `return true`, "exit" is os.Exit,
\* "panic" is panic(err); with the registry it leaves and the RegisterOpcode
\* calls it made
Ended(status, reg, calls) == [status |-> status, registry |-> reg, calls |-> calls]

\* RegisterPlugin on a file that holds artifact a.  The option map is ranged
\* over in no fixed order, so with several unusable handler symbols either
\* failure can be the one met.
RegisterArtifact(reg, a) ==
    LET missing == {e \in DOMAIN a.option : HandlerLookup(a, e) = "missing"}
        wrong == {e \in DOMAIN a.option : HandlerLookup(a, e) = "wrongtype"}
        done == RegisterAll([registry |-> reg, calls |-> <<>>], a, DOMAIN a.option)
    IN  IF ~a.open THEN {Ended("exit", reg, <<>>)}
        ELSE IF a.reg # "ok" \/ ~a.decodes THEN {Ended("panic", reg, <<>>)}
        ELSE IF missing \cup wrong # {}
             THEN {Ended("panic", reg, <<>>) : e \in missing}
                  \cup {Ended("exit", reg, <<>>) : e \in wrong}
        ELSE {Ended("ok", done.registry, done.calls)}

\* RegisterPlugin: the ways it can end on a path
RegisterPlugin(reg, path) ==
    IF path \notin Paths THEN {Ended("exit", reg, <<>>)}
    ELSE UNION {RegisterArtifact(reg, a) : a \in Artifacts[path]}

\* SetUpPlugin's loop over the globbed files, in glob order, from index i
RECURSIVE LoadFrom(_, _, _)
LoadFrom(reg, files, i) ==
    IF i > Len(PathOrder) THEN {Ended("ok", reg, <<>>)}
    ELSE IF PathOrder[i] \notin files THEN LoadFrom(reg, files, i + 1)
    ELSE UNION {IF r.status = "ok" THEN LoadFrom(r.registry, files, i + 1) ELSE {r}
                : r \in RegisterPlugin(reg, PathOrder[i])}

\* SetUpPlugin: create the log directory, then register every globbed artifact
SetUpPlugin ==
    /\ pc = "boot"
    /\ logDir' = TRUE
    /\ \E files \in SUBSET Paths :
         \E r \in LoadFrom(registry, files, 1) :
            /\ registry' = r.registry
            /\ pc' = IF r.status = "ok" THEN "idle" ELSE "crashed"
            /\ crash' = IF r.status = "ok" THEN "none" ELSE r.status
    /\ UNCHANGED <<nOps, active, evmTxStart, dzdVars, danVars, runVars,
                   logVars, freshRequest>>

\* a register request arrives from the control surface (package dan)
RequestRegister ==
    /\ pc = "idle"
    /\ ~IsReg
    /\ \E p \in RequestPaths : RegPath' = p
    /\ IsReg' = TRUE
    /\ UNCHANGED <<pc, nOps, logDir, crash, registry, active, evmTxStart, dzdVars, IsUn, UnPlg,
                   runVars, logVars, freshRequest>>

\* an unregister request arrives from the control surface (package dan)
RequestUnRegister ==
    /\ pc = "idle"
    /\ ~IsUn
    /\ \E n \in RequestNames : UnPlg' = n
    /\ IsUn' = TRUE
    /\ UNCHANGED <<pc, nOps, logDir, crash, registry, active, evmTxStart, dzdVars, IsReg, RegPath,
                   runVars, logVars, freshRequest>>

\* ------------------------------------------------------------- dispatching
\* What the extension code run by one handler call may do to the call context:
\* nothing, or request a rollback to a snapshot it names.
HandlerEffects ==
    {[set |-> FALSE, id |-> 0]} \cup {[set |-> TRUE, id |-> s] : s \in SnapshotIds}

Handler(eff) ==
    /\ BLOCKING_FLAG' = (eff.set \/ BLOCKING_FLAG)
    /\ PLUGIN_SNAPSHOT_ID' = IF eff.set THEN eff.id ELSE PLUGIN_SNAPSHOT_ID
    /\ freshRequest' = (eff.set \/ freshRequest)

\* PluginManages.SendDataToPlugin(name, builder(name)): the payload is built,
\* handed to the handler bound to name, and the handler runs
SendDataToPlugin(name, payload) ==
    /\ built' = Append(built, name)
    /\ events' = Append(events, [name |-> name, data |-> payload])
    /\ \E eff \in HandlerEffects : Handler(eff)

NoDispatch == UNCHANGED <<built, events, BLOCKING_FLAG, PLUGIN_SNAPSHOT_ID, freshRequest>>

\* collector.SendFlag(name): a payload carrying the event name alone
SendFlag(name) == [NoCollector EXCEPT !.Op = <<name>>]

\* ------------------------------------------------------- ApplyTransaction
\* lines 256-269: the call context a transaction starts with
TxStartLayer(t) == IF t.to # Nil THEN 0 + 1 ELSE 0
TxStartStack(t) == IF t.to # Nil THEN <<Frame(t.to, TxStartLayer(t))>> ELSE <<>>
TxStartAllStack(t) == IF t.to # Nil THEN <<HexString(t.to)>> ELSE <<>>
\* (the reset of line 260 left out)
TxStartBlockingFlag_Kept == BLOCKING_FLAG
TxStartBlockingFlag == FALSE
TxStartSnapshotId == 0

\* lines 226-269: AsMessage, Start(), the pending register / unregister requests,
\* the reset of the call context and the push of the direct target
ApplyTransaction_Begin ==
    /\ pc = "idle"
    /\ nOps < MaxOps
    /\ nOps' = nOps + 1
    /\ via' = "ApplyTransaction"
    /\ \E t \in Txs, n \in BlockNumbers :
        /\ tx' = t
        /\ block' = [number |-> n]
        /\ IF ~t.valid
           THEN /\ ret' = "error"
                /\ pc' = "ret"
                /\ UNCHANGED <<crash, registry, active, evmTxStart, dzdVars, danVars,
                               freshRequest>>
           ELSE /\ evmTxStart' = TRUE
                /\ active' = TRUE
                /\ UNCHANGED ret
                /\ \E r \in (IF IsReg THEN RegisterPlugin(registry, RegPath)
                             ELSE {Ended("ok", registry, <<>>)}) :
                     IF r.status # "ok"
                     THEN /\ pc' = "crashed"
                          /\ crash' = r.status
                          /\ UNCHANGED <<registry, dzdVars, danVars, freshRequest>>
                     ELSE /\ registry' = IF IsUn THEN UnRegisterPlg(r.registry, UnPlg)
                                         ELSE r.registry
                          /\ IF IsReg THEN RegPath' = Clear /\ IsReg' = FALSE
                             ELSE UNCHANGED <<RegPath, IsReg>>
                          /\ IF IsUn THEN IsUn' = FALSE /\ UnPlg' = Clear
                             ELSE UNCHANGED <<IsUn, UnPlg>>
                          /\ CALL_LAYER' = TxStartLayer(t)
                          /\ CALL_STACK' = TxStartStack(t)
                          /\ ALL_STACK' = TxStartAllStack(t)
                          /\ EXTERNAL_FLAG' = TRUE
                          /\ BLOCKING_FLAG' = TxStartBlockingFlag
                          /\ PLUGIN_SNAPSHOT_ID' = TxStartSnapshotId
                          /\ CALLVALID_MAP' = EmptyMap
                          /\ TxHash' = HexString(t.hash)
                          /\ freshRequest' = FALSE
                          /\ pc' = "l271"
                          /\ UNCHANGED crash
    /\ UNCHANGED <<logDir, txIdx, outcome, evmDepth, evmCalls, tcend, receipt, usedGas,
                   receipts, logVars>>

\* line 305, and lines 228-230: ApplyTransaction returns to its caller
ApplyTransaction_Return ==
    /\ pc = "ret"
    /\ via = "ApplyTransaction"
    /\ pc' = "idle"
    /\ via' = "none"
    /\ block' = NoBlock
    /\ txIdx' = 0
    /\ tx' = NoTx
    /\ outcome' = "none"
    /\ evmDepth' = 0
    /\ evmCalls' = 0
    /\ tcend' = NoCollector
    /\ receipt' = NoReceipt
    /\ usedGas' = 0
    /\ receipts' = <<>>
    /\ events' = <<>>
    /\ built' = <<>>
    /\ stateOps' = <<>>
    /\ UNCHANGED <<nOps, logDir, crash, registry, active, evmTxStart, dzdVars, danVars, ret,
                   freshRequest>>

\* lines 271-273
ApplyTransaction_TxStart ==
    /\ pc = "l271"
    /\ IF GetOpcodeRegister(registry, TXSTART)
       THEN SendDataToPlugin(TXSTART, SendFlag(TXSTART))
       ELSE NoDispatch
    /\ pc' = "l275"
    /\ UNCHANGED <<nOps, logDir, crash, registry, active, evmTxStart, CALL_LAYER, CALL_STACK,
                   ALL_STACK, EXTERNAL_FLAG, CALLVALID_MAP, TxHash, danVars, runVars,
                   stateOps>>

\* lines 275-300: the EXTERNALINFOSTART collector
Tcstart ==
    [NoCollector EXCEPT !.Op = <<EXTERNALINFOSTART>>,
                        !.TxHash = HexString(tx.hash),
                        !.Number = Itoa(block.number),
                        !.CallLayer = 1,
                        !.CallType = IF tx.to # Nil THEN <<"CALL">> ELSE <<>>,
                        !.To = IF tx.to # Nil THEN HexString(tx.to) ELSE <<>>]

\* lines 275-305: dispatch EXTERNALINFOSTART, then enter applyTransaction
ApplyTransaction_ExternalInfoStart ==
    /\ pc = "l275"
    /\ IF GetOpcodeRegister(registry, EXTERNALINFOSTART)
       THEN SendDataToPlugin(EXTERNALINFOSTART, Tcstart)
       ELSE NoDispatch
    /\ pc' = "l127"
    /\ UNCHANGED <<nOps, logDir, crash, registry, active, evmTxStart, CALL_LAYER, CALL_STACK,
                   ALL_STACK, EXTERNAL_FLAG, CALLVALID_MAP, TxHash, danVars, runVars,
                   stateOps>>

\* ------------------------------------------------- the execution engine
\* The call-context tracking done inside ApplyMessage for the external calls a
\* message makes (OnExternalCallStart / OnExternalCallEnd of the call context
\* tracker).  Extension code run on the way may request a rollback.
ExtensionMay == \E eff \in (IF DOMAIN registry = {} THEN {[set |-> FALSE, id |-> 0]}
                            ELSE HandlerEffects) : Handler(eff)

Revert(id) == <<"RevertToSnapshot", id>>

Evm_ExternalCallStart ==
    /\ pc = "l127"
    /\ evmCalls < MaxCalls
    /\ \E a \in Addrs :
         /\ CALL_LAYER' = CALL_LAYER + 1
         /\ CALL_STACK' = Append(CALL_STACK, Frame(a, CALL_LAYER + 1))
         /\ ALL_STACK' = Append(ALL_STACK, HexString(a))
    /\ CALLVALID_MAP' = [d \in DOMAIN CALLVALID_MAP \cup {CALL_LAYER + 1} |-> TRUE]
    /\ evmDepth' = evmDepth + 1
    /\ evmCalls' = evmCalls + 1
    /\ ExtensionMay
    /\ UNCHANGED <<pc, nOps, logDir, crash, registry, active, evmTxStart, EXTERNAL_FLAG, TxHash,
                   danVars, via, block, txIdx, tx, outcome, tcend, receipt, usedGas,
                   receipts, ret, logVars>>

Evm_ExternalCallEnd ==
    /\ pc = "l127"
    /\ evmDepth > 0
    /\ evmDepth' = evmDepth - 1
    /\ UNCHANGED evmCalls
    /\ CALL_STACK' = SubSeq(CALL_STACK, 1, Len(CALL_STACK) - 1)
    /\ CALL_LAYER' = CALL_LAYER - 1
    /\ \E eff \in (IF DOMAIN registry = {} THEN {[set |-> FALSE, id |-> 0]}
                   ELSE HandlerEffects) :
         LET flag == eff.set \/ BLOCKING_FLAG
             id == IF eff.set THEN eff.id ELSE PLUGIN_SNAPSHOT_ID
         IN  /\ stateOps' = IF flag THEN Append(stateOps, Revert(id)) ELSE stateOps
             /\ BLOCKING_FLAG' = FALSE
             /\ PLUGIN_SNAPSHOT_ID' = id
             /\ freshRequest' = FALSE
    /\ UNCHANGED <<pc, nOps, logDir, crash, registry, active, evmTxStart, ALL_STACK, EXTERNAL_FLAG,
                   CALLVALID_MAP, TxHash, danVars, via, block, txIdx, tx, outcome, tcend,
                   receipt, usedGas, receipts, ret, events, built>>

\* ------------------------------------------------------- applyTransaction
\* what ApplyMessage can return: a result that succeeded, a result that failed
\* (reverted), or no result and an error
Outcomes == {"ok", "failed", "error"}
ResultUsedGas(o) == IF o = "error" THEN 0 ELSE 1
ResultFailed(o) == o = "failed"

\* where control goes when applyTransaction returns
AfterReturn == IF via = "ApplyTransaction" THEN "ret" ELSE "l109"

\* lines 121-127: the message application ends
applyTransaction_ApplyMessage ==
    /\ pc = "l127"
    /\ evmDepth = 0
    /\ \E o \in Outcomes : outcome' = o
    /\ pc' = "l130"
    /\ UNCHANGED <<nOps, logDir, crash, registry, active, evmTxStart, dzdVars, danVars, via, block,
                   txIdx, tx, evmDepth, evmCalls, tcend, receipt, usedGas, receipts, ret, logVars,
                   freshRequest>>

\* lines 130-132: the revert requests sent to the state store at the call end
\* (the revert sent without the snapshot the request names)
RevertRequests_NoId == IF BLOCKING_FLAG = TRUE THEN <<Revert(0)>> ELSE <<>>
\* (the revert sent a second time)
RevertRequests_Twice ==
    IF BLOCKING_FLAG = TRUE
    THEN <<Revert(PLUGIN_SNAPSHOT_ID), Revert(PLUGIN_SNAPSHOT_ID)>> ELSE <<>>
RevertRequests == IF BLOCKING_FLAG = TRUE THEN <<Revert(PLUGIN_SNAPSHOT_ID)>> ELSE <<>>

applyTransaction_Revert ==
    /\ pc = "l130"
    /\ stateOps' = stateOps \o RevertRequests
    /\ freshRequest' = IF RevertRequests # <<>> THEN FALSE ELSE freshRequest
    /\ pc' = "l133"
    /\ UNCHANGED <<nOps, logDir, crash, registry, active, evmTxStart, dzdVars, danVars, runVars,
                   events, built>>

\* lines 133-141: the EXTERNALINFOEND collector; result.UsedGas is read from the
\* result whether or not there is one
applyTransaction_Tcend ==
    /\ pc = "l133"
    /\ IF GetOpcodeRegister(registry, EXTERNALINFOEND)
       THEN IF outcome = "error"
            THEN /\ pc' = "crashed"
                 /\ crash' = "nil result"
                 /\ tcend' = [NoCollector EXCEPT !.Op = <<EXTERNALINFOEND>>,
                                                 !.TxHash = HexString(tx.hash)]
            ELSE /\ pc' = "l144"
                 /\ tcend' = [NoCollector EXCEPT !.Op = <<EXTERNALINFOEND>>,
                                                 !.TxHash = HexString(tx.hash),
                                                 !.CallLayer = 1]
                 /\ UNCHANGED crash
       ELSE /\ pc' = "l144"
            /\ tcend' = NoCollector
            /\ UNCHANGED crash
    /\ UNCHANGED <<nOps, logDir, registry, active, evmTxStart, dzdVars, danVars, via, block, txIdx,
                   tx, outcome, evmDepth, evmCalls, receipt, usedGas, receipts, ret, logVars,
                   freshRequest>>

\* lines 144-152: the message application returned an error
applyTransaction_Error ==
    /\ pc = "l144"
    /\ outcome = "error"
    /\ IF GetOpcodeRegister(registry, EXTERNALINFOEND)
       THEN /\ tcend' = [tcend EXCEPT !.IsSuccess = FALSE]
            /\ SendDataToPlugin(EXTERNALINFOEND, tcend')
       ELSE /\ UNCHANGED tcend
            /\ NoDispatch
    /\ ret' = "error"
    /\ pc' = AfterReturn
    /\ UNCHANGED via
    /\ UNCHANGED <<nOps, logDir, crash, registry, active, evmTxStart, CALL_LAYER, CALL_STACK,
                   ALL_STACK, EXTERNAL_FLAG, CALLVALID_MAP, TxHash, danVars, block, txIdx,
                   tx, outcome, evmDepth, evmCalls, receipt, usedGas, receipts, stateOps>>

\* config.IsByzantium(blockNumber), for a chain whose fork lies between the
\* modelled block numbers
IsByzantium(n) == n > 9

\* lines 154-197: finalise the state, count the gas, build the receipt
applyTransaction_Finalise ==
    /\ pc = "l144"
    /\ outcome # "error"
    /\ stateOps' = Append(stateOps, IF IsByzantium(block.number) THEN <<"Finalise">>
                                    ELSE <<"IntermediateRoot">>)
    /\ usedGas' = usedGas + ResultUsedGas(outcome)
    /\ receipt' = [Status |-> IF ResultFailed(outcome) THEN "failed" ELSE "successful",
                   TxHash |-> tx.hash,
                   GasUsed |-> ResultUsedGas(outcome),
                   ContractAddress |-> IF tx.to = Nil THEN tx.hash + 1 ELSE Nil]
    /\ tcend' = IF tx.to = Nil /\ GetOpcodeRegister(registry, EXTERNALINFOEND)
                THEN [tcend EXCEPT !.CallType = <<"CREATE">>,
                                   !.To = HexString(tx.hash + 1)]
                ELSE tcend
    /\ pc' = "l199"
    /\ UNCHANGED <<nOps, logDir, crash, registry, active, evmTxStart, dzdVars, danVars, via, block,
                   txIdx, tx, outcome, evmDepth, evmCalls, receipts, ret, events, built,
                   freshRequest>>

\* lines 199-210: isSuccess as the EXTERNALINFOEND payload carries it
TcendIsSuccess == ~ResultFailed(outcome)

applyTransaction_ExternalInfoEnd ==
    /\ pc = "l199"
    /\ IF GetOpcodeRegister(registry, EXTERNALINFOEND)
       THEN /\ tcend' = [tcend EXCEPT !.IsSuccess = TcendIsSuccess]
            /\ SendDataToPlugin(EXTERNALINFOEND, tcend')
       ELSE /\ UNCHANGED tcend
            /\ NoDispatch
    /\ pc' = "l212"
    /\ UNCHANGED <<nOps, logDir, crash, registry, active, evmTxStart, CALL_LAYER, CALL_STACK,
                   ALL_STACK, EXTERNAL_FLAG, CALLVALID_MAP, TxHash, danVars, via, block,
                   txIdx, tx, outcome, evmDepth, evmCalls, receipt, usedGas, receipts, ret, stateOps>>

\* line 212: CALL_STACK[:len(CALL_STACK)-1], which panics on an empty stack
applyTransaction_Pop ==
    /\ pc = "l212"
    /\ IF Len(CALL_STACK) = 0
       THEN /\ pc' = "crashed"
            /\ crash' = "slice bounds"
            /\ UNCHANGED CALL_STACK
       ELSE /\ CALL_STACK' = SubSeq(CALL_STACK, 1, Len(CALL_STACK) - 1)
            /\ pc' = "l214"
            /\ UNCHANGED crash
    /\ UNCHANGED <<nOps, logDir, registry, active, evmTxStart, CALL_LAYER, ALL_STACK,
                   EXTERNAL_FLAG, BLOCKING_FLAG, PLUGIN_SNAPSHOT_ID, CALLVALID_MAP, TxHash,
                   danVars, runVars, logVars, freshRequest>>

\* line 214: the guard of the TXEND dispatch
\* (the dispatch made without asking the registry)
TxEndRegistered_Always == TRUE
TxEndRegistered == GetOpcodeRegister(registry, TXEND)

\* lines 214-219: TXEND and Stop(), then return the receipt
applyTransaction_TxEnd ==
    /\ pc = "l214"
    /\ IF TxEndRegistered
       THEN /\ SendDataToPlugin(TXEND, SendFlag(TXEND))
            /\ active' = FALSE
       ELSE /\ NoDispatch
            /\ UNCHANGED active
    /\ ret' = "receipt"
    /\ pc' = AfterReturn
    /\ UNCHANGED via
    /\ UNCHANGED <<nOps, logDir, crash, registry, evmTxStart, CALL_LAYER, CALL_STACK, ALL_STACK,
                   EXTERNAL_FLAG, CALLVALID_MAP, TxHash, danVars, block, txIdx, tx, outcome,
                   evmDepth, evmCalls, tcend, receipt, usedGas, receipts, stateOps>>

\* ---------------------------------------------------------------- Process
\* lines 64-77: a block arrives; Process sets up its accumulators (the DAO fork
\* block is none of the modelled block numbers)
Process_Enter ==
    /\ pc = "idle"
    /\ nOps < MaxOps
    /\ nOps' = nOps + 1
    /\ via' = "Process"
    /\ \E n \in BlockNumbers : block' = [number |-> n]
    /\ txIdx' = 0
    /\ usedGas' = 0
    /\ receipts' = <<>>
    /\ pc' = "l79"
    /\ UNCHANGED <<logDir, crash, registry, active, evmTxStart, dzdVars, danVars, tx, outcome,
                   evmDepth, evmCalls, tcend, receipt, ret, logVars, freshRequest>>

\* lines 80-95: the block collector
\* (the number field left unset)
BlockCollector_NoNumber ==
    [NoCollector EXCEPT !.Op = Concat(<<"Block">>, Itoa(block.number))]
BlockCollector ==
    [NoCollector EXCEPT !.Op = Concat(<<"Block">>, Itoa(block.number)),
                        !.Number = Itoa(block.number)]

\* lines 78-100: dispatch the block info, then create the EVM of the block
Process_BlockInfo ==
    /\ pc = "l79"
    /\ IF GetOpcodeRegister(registry, BLOCK_INFO)
       THEN SendDataToPlugin(BLOCK_INFO, BlockCollector)
       ELSE NoDispatch
    /\ evmTxStart' = FALSE
    /\ pc' = "l102"
    /\ UNCHANGED <<nOps, logDir, crash, registry, active, CALL_LAYER, CALL_STACK, ALL_STACK,
                   EXTERNAL_FLAG, CALLVALID_MAP, TxHash, danVars, runVars, stateOps>>

\* lines 102-108: the next transaction of the block: AsMessage, Prepare, and
\* into applyTransaction
Process_Tx ==
    /\ pc = "l102"
    /\ txIdx < MaxBlockTxs
    /\ \E t \in Txs :
        /\ tx' = t
        /\ IF ~t.valid
           THEN /\ ret' = "error"
                /\ pc' = "ret"
                /\ UNCHANGED stateOps
           ELSE /\ stateOps' = Append(stateOps, <<"Prepare", t.hash, txIdx>>)
                /\ pc' = "l127"
                /\ UNCHANGED ret
    /\ outcome' = "none"
    /\ evmDepth' = 0
    /\ evmCalls' = 0
    /\ UNCHANGED <<nOps, logDir, crash, registry, active, evmTxStart, dzdVars, danVars, via,
                   block, txIdx, tcend, receipt, usedGas, receipts, events, built,
                   freshRequest>>

\* lines 109-114: applyTransaction has returned to the loop
Process_AfterTx ==
    /\ pc = "l109"
    /\ IF ret = "error"
       THEN /\ pc' = "ret"
            /\ UNCHANGED <<receipts, txIdx>>
       ELSE /\ receipts' = Append(receipts, receipt)
            /\ txIdx' = txIdx + 1
            /\ pc' = "l102"
    /\ UNCHANGED <<nOps, logDir, crash, registry, active, evmTxStart, dzdVars, danVars, via,
                   block, tx, outcome, evmDepth, evmCalls, tcend, receipt, usedGas, ret,
                   logVars, freshRequest>>

\* lines 115-118: the block has no more transactions
Process_Finalize ==
    /\ pc = "l102"
    /\ stateOps' = Append(stateOps, <<"Finalize">>)
    /\ ret' = "receipts"
    /\ pc' = "ret"
    /\ UNCHANGED <<nOps, logDir, crash, registry, active, evmTxStart, dzdVars, danVars, via,
                   block, txIdx, tx, outcome, evmDepth, evmCalls, tcend, receipt, usedGas,
                   receipts, events, built, freshRequest>>

\* lines 105, 110, 118: Process returns to its caller
Process_Return ==
    /\ pc = "ret"
    /\ via = "Process"
    /\ pc' = "idle"
    /\ via' = "none"
    /\ block' = NoBlock
    /\ txIdx' = 0
    /\ tx' = NoTx
    /\ outcome' = "none"
    /\ evmDepth' = 0
    /\ evmCalls' = 0
    /\ tcend' = NoCollector
    /\ receipt' = NoReceipt
    /\ usedGas' = 0
    /\ receipts' = <<>>
    /\ events' = <<>>
    /\ built' = <<>>
    /\ stateOps' = <<>>
    /\ UNCHANGED <<nOps, logDir, crash, registry, active, evmTxStart, dzdVars, danVars, ret,
                   freshRequest>>

Next ==
    \/ SetUpPlugin
    \/ RequestRegister
    \/ RequestUnRegister
    \/ ApplyTransaction_Begin
    \/ ApplyTransaction_TxStart
    \/ ApplyTransaction_ExternalInfoStart
    \/ ApplyTransaction_Return
    \/ Evm_ExternalCallStart
    \/ Evm_ExternalCallEnd
    \/ applyTransaction_ApplyMessage
    \/ applyTransaction_Revert
    \/ applyTransaction_Tcend
    \/ applyTransaction_Error
    \/ applyTransaction_Finalise
    \/ applyTransaction_ExternalInfoEnd
    \/ applyTransaction_Pop
    \/ applyTransaction_TxEnd
    \/ Process_Enter
    \/ Process_BlockInfo
    \/ Process_Tx
    \/ Process_AfterTx
    \/ Process_Finalize
    \/ Process_Return

Spec == Init /\ [][Next]_vars


\* =================================================================== claims
Last(q) == q[Len(q)]
EventsNamed(name) == SelectSeq(events, LAMBDA e : e.name = name)
Bound(name) == name \in DOMAIN registry
AllBound == HookNames \subseteq DOMAIN registry

\* applyTransaction has returned, or the process died inside it
Returned == \/ pc = "ret" /\ via = "ApplyTransaction" /\ outcome # "none"
            \/ pc = "l109"
ReturnedReceipt == Returned /\ ret = "receipt"

\* the number a decimal string denotes
DigitValue(c) == CHOOSE d \in 0..9 : Digits[d + 1] = c
RECURSIVE ParseDecimal(_)
ParseDecimal(q) ==
    IF Len(q) = 0 THEN 0
    ELSE 10 * ParseDecimal(SubSeq(q, 1, Len(q) - 1)) + DigitValue(Last(q))

\* C1: when the message application has just returned (line 130 is next), the
\* next step sends the state store exactly one RevertToSnapshot(PLUGIN_SNAPSHOT_ID)
\* if BLOCKING_FLAG is set and nothing if it is not, and dispatches no event;
\* the return itself touches neither the state store nor the event stream.
C1_RollbackOnRequest ==
    [][/\ (pc = "l130" /\ pc' # "l130") =>
            /\ stateOps' = IF BLOCKING_FLAG
                           THEN Append(stateOps, <<"RevertToSnapshot", PLUGIN_SNAPSHOT_ID>>)
                           ELSE stateOps
            /\ events' = events
            /\ built' = built
       /\ (pc # "l130" /\ pc' = "l130") =>
            /\ stateOps' = stateOps
            /\ events' = events]_vars

C1_Witness ==
    /\ pc = "l133"
    /\ BLOCKING_FLAG
    /\ PLUGIN_SNAPSHOT_ID = 2
    /\ stateOps # <<>>
    /\ Last(stateOps) = <<"RevertToSnapshot", 2>>

\* C2: the revert at a call end only ever serves a rollback request an
\* extension made since the last revert: once a request has been executed the
\* flag is clear, so it is not executed again at a later call end.
C2_FlagClearedAfterRollback ==
    (pc = "l130" /\ BLOCKING_FLAG) => freshRequest

\* C3: when the message application of a transaction starts, every field of
\* the call context holds the value the transaction-start reset gives it for
\* that transaction; the rollback flag can only be set if a handler ran for it.
C3_ResetBeforeEachTransaction ==
    (pc = "l127" /\ evmCalls = 0) =>
        /\ TxHash = HexString(tx.hash)
        /\ CALL_LAYER = (IF tx.to # Nil THEN 1 ELSE 0)
        /\ Len(CALL_STACK) = CALL_LAYER
        /\ Len(ALL_STACK) = CALL_LAYER
        /\ CALLVALID_MAP = EmptyMap
        /\ BLOCKING_FLAG => (via = "ApplyTransaction" /\ events # <<>>)
        /\ ~BLOCKING_FLAG => PLUGIN_SNAPSHOT_ID = 0

\* C4: callLayer equals len(callStack) in every state of the running process
\* (each push and each pop is one step).
C4_LayerIsStackLength ==
    pc # "crashed" => CALL_LAYER = Len(CALL_STACK)

\* C5: when applyTransaction returns a receipt and no rollback was requested,
\* callLayer is 0 and callStack is empty.
C5_StackEmptyAfterLastCallEnd ==
    (ReturnedReceipt /\ ~BLOCKING_FLAG /\ ~freshRequest) =>
        (CALL_LAYER = 0 /\ CALL_STACK = <<>>)

\* C6: right after the transaction-start step of ApplyTransaction the call
\* context is: layer 1, one frame "target#1" and one touched contract for a
\* message with a direct target; layer 0 and empty lists for one without; no
\* rollback requested and snapshot id 0.
C6_TxStartReset ==
    pc = "l271" =>
        /\ IF tx.to # Nil
           THEN /\ CALL_LAYER = 1
                /\ CALL_STACK = << <<"0x", "a", "b", "#", "1">> >>
                /\ ALL_STACK = << <<"0x", "a", "b">> >>
           ELSE /\ CALL_LAYER = 0
                /\ CALL_STACK = <<>>
                /\ ALL_STACK = <<>>
        /\ BLOCKING_FLAG = FALSE
        /\ PLUGIN_SNAPSHOT_ID = 0

C6_Witness ==
    /\ pc = "l271"
    /\ tx.to # Nil
    /\ nOps > 1
    /\ ret = "receipt"

\* C7: with a handler bound to every event name, every EXTERNALINFOEND
\* dispatched follows an EXTERNALINFOSTART of the same transaction, and the
\* TXEND dispatches never outnumber the TXSTART dispatches before them.
C7_EventOrder ==
    AllBound =>
        \A i \in 1..Len(events) :
            /\ events[i].name = EXTERNALINFOEND =>
                 \E j \in 1..(i - 1) :
                    /\ events[j].name = EXTERNALINFOSTART
                    /\ events[j].data.TxHash = events[i].data.TxHash
            /\ events[i].name = TXEND =>
                 \E j \in 1..(i - 1) : events[j].name = TXSTART

\* C8: once Process is past its block-info hook with a handler bound to
\* handle_BLOCK_INFO, the events of the block start with the one block-info
\* dispatch, whose number field denotes the header's number.
C8_BlockInfoOnceFirst ==
    (via = "Process" /\ pc # "l79" /\ Bound(BLOCK_INFO)) =>
        /\ Len(EventsNamed(BLOCK_INFO)) = 1
        /\ events[1].name = BLOCK_INFO
        /\ ParseDecimal(events[1].data.Number) = block.number

C8_Witness ==
    /\ via = "Process"
    /\ pc = "l212"
    /\ block.number = 100
    /\ Len(events) = 2
    /\ events[1].name = BLOCK_INFO
    /\ events[2].name = EXTERNALINFOEND

\* C9: a step builds a payload or calls SendDataToPlugin only for an event
\* name that has a handler bound when the step is taken.
C9_NoDispatchUnbound ==
    [][/\ \A i \in (Len(built) + 1)..Len(built') : built'[i] \in DOMAIN registry
       /\ \A i \in (Len(events) + 1)..Len(events') : events'[i].name \in DOMAIN registry]_vars

C9_Witness ==
    /\ pc = "ret"
    /\ via = "ApplyTransaction"
    /\ ret = "receipt"
    /\ Bound(EXTERNALINFOEND)
    /\ ~Bound(TXEND)
    /\ built = <<EXTERNALINFOEND>>

\* C10: with a handler bound to EXTERNALINFOEND, once a transaction's message
\* application has returned and applyTransaction has ended, EXTERNALINFOEND
\* was dispatched once for it, with its hash and isSuccess true exactly when
\* the application returned a result that did not fail.
C10_ExternalInfoEndOnce ==
    (Bound(EXTERNALINFOEND) /\ outcome # "none" /\ (Returned \/ pc = "crashed")) =>
        LET eie == EventsNamed(EXTERNALINFOEND)
            n == IF via = "Process" THEN txIdx + 1 ELSE 1
        IN  /\ Len(eie) = n
            /\ eie[n].data.TxHash = HexString(tx.hash)
            /\ eie[n].data.IsSuccess = (outcome = "ok")

\* C11: when ApplyTransaction returns from a transaction for which Start() was
\* called, TXEND has been dispatched exactly if a handler is bound to it, and
\* the dispatcher has been stopped.
C11_StoppedAfterTransaction ==
    (pc = "ret" /\ via = "ApplyTransaction" /\ tx.valid) =>
        /\ (Len(EventsNamed(TXEND)) = 1) <=> Bound(TXEND)
        /\ ~active

\* C12: when the message application of a transaction starts, no register and
\* no unregister request is pending any more: both flags are false and both
\* arguments hold the cleared value.
C12_RequestsDrained ==
    (pc = "l127" /\ evmCalls = 0) =>
        /\ ~IsReg /\ RegPath = Clear
        /\ ~IsUn /\ UnPlg = Clear

\* a descriptor every load-time check accepts, and one some check rejects
ValidArtifact(a) ==
    /\ a.open /\ a.reg = "ok" /\ a.decodes
    /\ \A e \in DOMAIN a.option : a.syms[a.option[e]] = "ok"
LoadError(a) ==
    \/ ~a.open \/ a.reg # "ok" \/ ~a.decodes
    \/ \E e \in DOMAIN a.option : a.syms[a.option[e]] # "ok"
Unloadable(p) == p \notin Paths \/ \A a \in Artifacts[p] : LoadError(a)
Owners(reg) == {reg[e].PluginName : e \in DOMAIN reg}
\* the plugin names of the files of a glob result that come before its first
\* unloadable file (of all its files if none is unloadable)
LoadedNames(files) ==
    {a.name : a \in UNION {Artifacts[PathOrder[i]] :
                 i \in {j \in DOMAIN PathOrder :
                          /\ PathOrder[j] \in files
                          /\ \A k \in 1..j : PathOrder[k] \in files => ~Unloadable(PathOrder[k])}}}

\* C13: on any registry the program can hold where RegisterPlugin is called
\* (at start-up and between transactions), RegisterPlugin on a valid
\* descriptor with N declared event names returns true after N RegisterOpcode
\* calls, one per declared name, each with the descriptor's plugin name, the
\* event name and the handler symbol declared for it; afterwards the registry
\* holds that binding under each of the N names and its other entries are as
\* they were.
C13_RegistersEveryOpcode ==
    \A p \in Paths : \A a \in Artifacts[p] :
        (pc \in {"boot", "idle"} /\ ValidArtifact(a)) =>
            /\ RegisterPlugin(registry, p) # {}
            /\ \A r \in RegisterPlugin(registry, p) :
                /\ r.status = "ok"
                /\ Len(r.calls) = Cardinality(DOMAIN a.option)
                /\ {r.calls[i].Opcode : i \in DOMAIN r.calls} = DOMAIN a.option
                /\ \A i \in DOMAIN r.calls :
                     LET e == r.calls[i].Opcode
                     IN  /\ r.calls[i] = [PluginName |-> a.name, Opcode |-> e,
                                          SendFunc |-> a.option[e]]
                         /\ r.registry[e] = r.calls[i]
                /\ DOMAIN r.registry = DOMAIN registry \cup DOMAIN a.option
                /\ \A e \in DOMAIN registry \ DOMAIN a.option : r.registry[e] = registry[e]

C13_Witness ==
    /\ pc = "l271"
    /\ Bound(TXSTART) /\ registry[TXSTART] = [PluginName |-> "mon", Opcode |-> TXSTART,
                                              SendFunc |-> "On"]
    /\ Bound(BLOCK_INFO) /\ registry[BLOCK_INFO].PluginName = "blk"
    /\ Bound(EXTERNALINFOEND) /\ registry[EXTERNALINFOEND].SendFunc = "OnBlk"

\* C14: every binding in the registry is held under its own event name, and
\* that name is not the empty string.
C14_EventNamesNonEmpty ==
    \A e \in DOMAIN registry : registry[e].Opcode = e /\ e # ""

TxEvents == {TXSTART, EXTERNALINFOSTART, EXTERNALINFOEND, TXEND}
\* the transactions the running entry point has completed before the current one
TxsBefore == IF via = "Process" THEN txIdx ELSE 0
\* the state-store calls made for the current transaction
TxStateOps ==
    LET prepares == {i \in DOMAIN stateOps : stateOps[i][1] = "Prepare"}
    IN  IF prepares = {} THEN stateOps
        ELSE SubSeq(stateOps, CHOOSE i \in prepares : \A j \in prepares : j <= i,
                    Len(stateOps))
Reverts(q) == SelectSeq(q, LAMBDA o : o[1] = "RevertToSnapshot")
Finalises(q) == SelectSeq(q, LAMBDA o : o[1] \in {"Finalise", "IntermediateRoot"})

\* C16: whenever applyTransaction is about to pop the call stack (line 212),
\* the call stack holds at least one frame.
C16_PopOnNonEmptyStack ==
    pc = "l212" => Len(CALL_STACK) >= 1

\* C17: a step dispatches TXSTART, EXTERNALINFOSTART, EXTERNALINFOEND or TXEND
\* only while the dispatcher is active (Start() called and no Stop() since).
C17_EventsOnlyWhileActive ==
    [][\A i \in (Len(events) + 1)..Len(events') :
          events'[i].name \in TxEvents => active]_vars

\* C18: applyTransaction reaches its revert (line 130) once per execution,
\* straight from the message application; that step sends at most one
\* RevertToSnapshot, with no EXTERNALINFOEND or TXEND of the transaction
\* dispatched and the state not finalised yet; no later step of
\* applyTransaction sends a RevertToSnapshot, whatever a handler requested.
C18_OneRevertBeforeEnd ==
    [][/\ pc' = "l130" => pc = "l127"
       /\ pc = "l130" =>
            /\ Len(Reverts(stateOps')) <= Len(Reverts(stateOps)) + 1
            /\ Len(EventsNamed(EXTERNALINFOEND)) <= TxsBefore
            /\ Len(EventsNamed(TXEND)) <= TxsBefore
            /\ Finalises(TxStateOps) = <<>>
       /\ pc \in {"l133", "l144", "l199", "l212", "l214"} =>
            Len(Reverts(stateOps')) <= Len(Reverts(stateOps))]_vars

C18_Witness ==
    /\ pc = "ret"
    /\ via = "ApplyTransaction"
    /\ ret = "receipt"
    /\ freshRequest
    /\ PLUGIN_SNAPSHOT_ID = 2
    /\ Reverts(stateOps) = <<Revert(1)>>
    /\ Len(stateOps) = 2

\* C19: once applyTransaction is past a message application that returned an
\* error, it has returned the error: the gas counter is what it was, the
\* state is not finalised, the call stack is as the message application left
\* it, the dispatcher is not stopped, no TXEND was dispatched for the
\* transaction, and the last event is the one EXTERNALINFOEND with isSuccess
\* false if a handler is bound to it.
C19_ErrorPath ==
    (outcome = "error" /\ pc \notin {"l130", "l133", "l144"}) =>
        /\ pc # "crashed"
        /\ ret = "error"
        /\ usedGas = TxsBefore
        /\ Finalises(TxStateOps) = <<>>
        /\ tx.to # Nil /\ via = "ApplyTransaction" => Len(CALL_STACK) = 1
        /\ via = "ApplyTransaction" => active
        /\ Len(EventsNamed(TXEND)) <= TxsBefore
        /\ IF Bound(EXTERNALINFOEND)
           THEN /\ Len(EventsNamed(EXTERNALINFOEND)) = TxsBefore + 1
                /\ Last(events).name = EXTERNALINFOEND
                /\ Last(events).data.IsSuccess = FALSE
           ELSE EventsNamed(EXTERNALINFOEND) = <<>>

\* C20: with a handler bound to EXTERNALINFOEND, once applyTransaction is past
\* the payload set-up of a message application that returned an error, the
\* process is running and the failure notification has been dispatched.
C20_FailureNotificationDelivered ==
    (outcome = "error" /\ Bound(EXTERNALINFOEND) /\ pc \notin {"l130", "l133"}) =>
        /\ crash = "none"
        /\ events # <<>>
        /\ Last(events).name = EXTERNALINFOEND
        /\ Last(events).data.IsSuccess = FALSE

====
